---- MODULE Spec2Model ----
(***************************************************************************)
(* Model of the pacsalyzer scripts: analyze_weekday_study_distribution.py  *)
(* (the normalisation / filter / holiday split / top-10 / boxplot          *)
(* pipeline) and list_institution_names.py (its own window filter).        *)
(*                                                                         *)
(* Encoding conventions                                                    *)
(*   - a Python str is a sequence of one-character strings;                *)
(*   - an optional value (None or v) is the sequence <<>> or <<v>>;        *)
(*   - a dict is a function whose domain is the set of its keys;           *)
(*   - a DataFrame is [columns |-> set of column names, rows |-> Seq];     *)
(*   - a call that can raise returns [raised |-> name, value |-> v],       *)
(*     raised = "None" when it returns normally.                           *)
(***************************************************************************)
EXTENDS Integers, Sequences, FiniteSets, TLC

VARIABLES
    pc,                \* position of the run
    data,              \* the loaded JSON batch: a sequence of entries (dicts)
    timeframe,         \* args.timeframe / the timeframe parameter
    country,           \* args.holiday_country
    top10_output,      \* args.top10_output given or not
    identity_required, \* the caller's identity-key policy (spec section 6)
    now,               \* datetime.now(): [date |-> [year, month, day], tod |-> seconds since 00:00]
    calendar,          \* the dates the holiday calendar of the run reports as holidays
    df,                \* preprocess_data's DataFrame
    filtered_df,       \* analyze script: filter_data_by_timeframe's result
    filtered_data,     \* list script: filter_data_by_timeframe's result
    non_holiday_df,    \* separate_holidays' first result
    holiday_df,        \* separate_holidays' second result
    split_again,       \* a second application of separate_holidays to the same input
    top_10,            \* get_top_10_counts' result
    csv_written,       \* the top-10 CSV file was written
    charts,            \* the charts saved by plot_boxplots_per_weekday_hour
    outcome            \* how the run ended

vars == <<pc, data, timeframe, country, top10_output, identity_required, now, calendar,
          df, filtered_df, filtered_data, non_holiday_df, holiday_df, split_again,
          top_10, csv_written, charts, outcome>>

----------------------------------------------------------------------------
(* Text helpers *)

Digits == <<"0", "1", "2", "3", "4", "5", "6", "7", "8", "9">>

IsDigit(c) == \E i \in DOMAIN Digits : Digits[i] = c

DigitVal(c) == (CHOOSE i \in DOMAIN Digits : Digits[i] = c) - 1

\* re's \s restricted to the characters the model's strings use
Whitespace == {" ", "\t", "\n"}

SetMin(S) == CHOOSE x \in S : \A y \in S : x <= y

SetMax(S) == CHOOSE x \in S : \A y \in S : y <= x

\* int() of a run of digits (a leading blank, as in strptime's " [1-9]", is skipped)
RECURSIVE ToInt(_)
ToInt(s) ==
    IF s = <<>> THEN 0
    ELSE IF ~IsDigit(s[Len(s)]) THEN ToInt(SubSeq(s, 1, Len(s) - 1))
    ELSE 10 * ToInt(SubSeq(s, 1, Len(s) - 1)) + DigitVal(s[Len(s)])

\* F applied to the value of x, computed once
With(x, F(_)) == CHOOSE e \in {F(v) : v \in {x}} : TRUE

\* dict.get(key, "")
Get(entry, key) == IF key \in DOMAIN entry THEN entry[key] ELSE <<>>

\* Python truthiness of an optional str: neither None nor ""
Truthy(opt) == opt # <<>> /\ opt[1] # <<>>

----------------------------------------------------------------------------
(* clean_value: the two grammars, first match wins *)

\* first index >= p holding a non-whitespace character, or Len(value) + 1
TokenStart(value, p) ==
    LET S == {i \in p..Len(value) : value[i] \notin Whitespace}
    IN  IF S = {} THEN Len(value) + 1 ELSE SetMin(S)

\* last index of the run of non-whitespace characters starting at a
TokenEnd(value, a) ==
    LET S == {i \in a..Len(value) : value[i] \in Whitespace}
    IN  IF S = {} THEN Len(value) ELSE SetMin(S) - 1

clean_value(value) ==
    LET quotes == {i \in 1..Len(value) : value[i] = "'"}
        marks  == {k \in 1..(Len(value) - 2) :
                      /\ value[k] = "U" /\ value[k + 1] = "I" /\ value[k + 2] = ":"
                      /\ TokenStart(value, k + 3) <= Len(value)}
    IN  IF Cardinality(quotes) >= 2
        THEN LET i == SetMin(quotes)
                 j == SetMin(quotes \ {i})
             IN  <<SubSeq(value, i + 1, j - 1)>>
        ELSE IF marks # {}
        THEN LET a == TokenStart(value, SetMin(marks) + 3)
             IN  <<SubSeq(value, a, TokenEnd(value, a))>>
        ELSE <<>>

\* str.split(".")[0]
SplitDot0(s) ==
    LET dots == {i \in 1..Len(s) : s[i] = "."}
    IN  IF dots = {} THEN s ELSE SubSeq(s, 1, SetMin(dots) - 1)

----------------------------------------------------------------------------
(* datetime.strptime: the format's directives become one regular expression *)
(* (Lib/_strptime.py), matched with re.match: alternatives are tried in     *)
(* order with backtracking, the first match of the whole pattern wins, and  *)
(* text left over after it is an error.                                     *)

\* number of alternatives of a directive's pattern
NAlts(f) ==
    CASE f = "Y" -> 1
      [] f = "m" -> 3
      [] f = "d" -> 5
      [] f = "H" -> 3
      [] f = "M" -> 2
      [] f = "S" -> 3

At(s, p) == IF p \in 1..Len(s) THEN s[p] ELSE "<end>"

D(s, p) == IsDigit(At(s, p))

\* length matched by alternative k of directive f at position p, or 0 when
\* the alternative does not match there
AltLen(s, f, p, k) ==
    LET a == At(s, p)
        b == At(s, p + 1)
        one(cond) == IF cond THEN 1 ELSE 0
        two(cond) == IF cond THEN 2 ELSE 0
    IN  CASE f = "Y" -> IF D(s, p) /\ D(s, p + 1) /\ D(s, p + 2) /\ D(s, p + 3) THEN 4 ELSE 0
          [] f = "m" /\ k = 1 -> two(a = "1" /\ b \in {"0", "1", "2"})
          [] f = "m" /\ k = 2 -> two(a = "0" /\ D(s, p + 1) /\ b # "0")
          [] f = "m" /\ k = 3 -> one(D(s, p) /\ a # "0")
          [] f = "d" /\ k = 1 -> two(a = "3" /\ b \in {"0", "1"})
          [] f = "d" /\ k = 2 -> two(a \in {"1", "2"} /\ D(s, p + 1))
          [] f = "d" /\ k = 3 -> two(a = "0" /\ D(s, p + 1) /\ b # "0")
          [] f = "d" /\ k = 4 -> one(D(s, p) /\ a # "0")
          [] f = "d" /\ k = 5 -> two(a = " " /\ D(s, p + 1) /\ b # "0")
          [] f = "H" /\ k = 1 -> two(a = "2" /\ b \in {"0", "1", "2", "3"})
          [] f = "H" /\ k = 2 -> two(a \in {"0", "1"} /\ D(s, p + 1))
          [] f = "H" /\ k = 3 -> one(D(s, p))
          [] f = "M" /\ k = 1 -> two(a \in {"0", "1", "2", "3", "4", "5"} /\ D(s, p + 1))
          [] f = "M" /\ k = 2 -> one(D(s, p))
          [] f = "S" /\ k = 1 -> two(a = "6" /\ b \in {"0", "1"})
          [] f = "S" /\ k = 2 -> two(a \in {"0", "1", "2", "3", "4", "5"} /\ D(s, p + 1))
          [] f = "S" /\ k = 3 -> one(D(s, p))

\* re.match of directives fmt[i..] at position p: <<>> when there is no
\* match, else <<ends>>, ends[j] the position after the j-th of them
RECURSIVE ReMatch(_, _, _, _), TryAlt(_, _, _, _, _)
ReMatch(s, fmt, i, p) ==
    IF i > Len(fmt) THEN << <<>> >> ELSE TryAlt(s, fmt, i, p, 1)

TryAlt(s, fmt, i, p, k) ==
    IF k > NAlts(fmt[i]) THEN <<>>
    ELSE With(AltLen(s, fmt[i], p, k), LAMBDA n :
         With(IF n = 0 THEN <<>> ELSE ReMatch(s, fmt, i + 1, p + n), LAMBDA rest :
             IF rest # <<>> THEN << <<p + n>> \o rest[1] >>
             ELSE TryAlt(s, fmt, i, p, k + 1)))

IsLeap(y) == (y % 4 = 0 /\ y % 100 # 0) \/ y % 400 = 0

DaysInMonth(y, m) ==
    IF m = 2 THEN (IF IsLeap(y) THEN 29 ELSE 28)
    ELSE IF m \in {4, 6, 9, 11} THEN 30 ELSE 31

\* the value of directive f in a match, 0 for a directive the format lacks
Field(s, fmt, ends, f, default) ==
    LET I == {i \in DOMAIN fmt : fmt[i] = f}
    IN  IF I = {} THEN default
        ELSE LET i == SetMin(I)
                 from == IF i = 1 THEN 1 ELSE ends[i - 1]
             IN  ToInt(SubSeq(s, from, ends[i] - 1))

\* datetime(...) of the matched fields: ValueError (<<>>) for a value out of range
MakeDateTime(dt) ==
    IF dt.year < 1 THEN <<>>                                  \* year 0 is out of range
    ELSE IF dt.day > DaysInMonth(dt.year, dt.month) THEN <<>> \* day is out of range for month
    ELSE IF dt.second > 59 THEN <<>>                          \* second must be in 0..59
    ELSE <<dt>>

\* datetime.strptime(s, fmt): <<>> for ValueError, else <<the datetime>>
strptime(s, fmt) ==
    With(ReMatch(s, fmt, 1, 1), LAMBDA m :
        IF m = <<>> THEN <<>>                                 \* does not match format
        ELSE IF m[1][Len(fmt)] # Len(s) + 1 THEN <<>>         \* unconverted data remains
        ELSE With([year   |-> Field(s, fmt, m[1], "Y", 1900),
                   month  |-> Field(s, fmt, m[1], "m", 1),
                   day    |-> Field(s, fmt, m[1], "d", 1),
                   hour   |-> Field(s, fmt, m[1], "H", 0),
                   minute |-> Field(s, fmt, m[1], "M", 0),
                   second |-> Field(s, fmt, m[1], "S", 0)], MakeDateTime))

FmtDateTime == <<"Y", "m", "d", "H", "M", "S">>

FmtDate == <<"Y", "m", "d">>

----------------------------------------------------------------------------
(* datetime.date arithmetic *)

RECURSIVE DaysBeforeMonth(_, _)
DaysBeforeMonth(y, m) ==
    IF m = 1 THEN 0 ELSE DaysBeforeMonth(y, m - 1) + DaysInMonth(y, m - 1)

\* date.toordinal()
ToOrdinal(d) ==
    LET y == d.year - 1
    IN  y * 365 + (y \div 4) - (y \div 100) + (y \div 400)
        + DaysBeforeMonth(d.year, d.month) + d.day

WeekdayNames ==
    <<"Monday", "Tuesday", "Wednesday", "Thursday", "Friday", "Saturday", "Sunday">>

\* strftime("%A")
DayName(d) == WeekdayNames[((ToOrdinal(d) + 6) % 7) + 1]

----------------------------------------------------------------------------
(* The record format query_pacs.py writes: str() of a DICOM data element *)

Str2(n) == <<Digits[(n \div 10) + 1], Digits[(n % 10) + 1]>>

Str4(n) == Str2(n \div 100) \o Str2(n % 100)

\* "YYYYMMDD" of a date
DateStr(d) == Str4(d.year) \o Str2(d.month) \o Str2(d.day)

\* "HHMMSS" of an hour (minutes and seconds 00)
HourStr(h) == Str2(h) \o <<"0", "0", "0", "0">>

DA(v) == <<"D", "A", ":", " ", "'">> \o v \o <<"'">>

TM(v) == <<"T", "M", ":", " ", "'">> \o v \o <<"'">>

UI(v) == <<"U", "I", ":", " ">> \o v

TagDate == "(0008,0020)"

TagTime == "(0008,0030)"

TagUID == "(0020,000D)"

Entry(dateValue, timeValue, uidValue) ==
    (TagDate :> dateValue) @@ (TagTime :> timeValue) @@ (TagUID :> uidValue)

----------------------------------------------------------------------------
(* preprocess_data *)

EventColumns == {"study_uid", "weekday", "hour", "date"}

\* pd.DataFrame(records): a list of dicts gives their keys as columns, an
\* empty list gives a frame with no columns
DataFrame(records) ==
    [columns |-> IF records = <<>> THEN {} ELSE EventColumns, rows |-> records]

\* the record appended for a parsed date-time
EventOf(study_uid, dt) ==
    With([year |-> dt.year, month |-> dt.month, day |-> dt.day], LAMBDA date :
        [study_uid |-> study_uid,
         weekday   |-> DayName(date),
         hour      |-> dt.hour,
         date      |-> date])

\* lines 49-59: the record appended, none when strptime raises ValueError
\* (the except clause prints a notice and the loop goes on)
TryAppend(study_date, study_time, study_uid) ==
    With(strptime(study_date \o SplitDot0(study_time), FmtDateTime), LAMBDA dt :
        IF dt = <<>> THEN <<>> ELSE <<EventOf(study_uid, dt[1])>>)

\* one turn of the loop with the identity test left out
NormalizeIgnoringIdentity(entry) ==
    LET study_date == clean_value(Get(entry, TagDate))
        study_time == clean_value(Get(entry, TagTime))
        study_uid  == clean_value(Get(entry, TagUID))
    IN  IF Truthy(study_date) /\ Truthy(study_time)
        THEN TryAppend(study_date[1], study_time[1],
                       IF study_uid = <<>> THEN <<>> ELSE study_uid[1])
        ELSE <<>>

\* one turn of the loop of preprocess_data: the records it appends for an entry
Normalize(entry) ==
    LET study_date == clean_value(Get(entry, TagDate))
        study_time == clean_value(Get(entry, TagTime))
        study_uid  == clean_value(Get(entry, TagUID))
    IN  IF Truthy(study_date) /\ Truthy(study_time) /\ Truthy(study_uid)
        THEN TryAppend(study_date[1], study_time[1], study_uid[1])
        ELSE <<>>

RECURSIVE Records(_)
Records(entries) ==
    IF entries = <<>> THEN <<>>
    ELSE Normalize(Head(entries)) \o Records(Tail(entries))

preprocess_data(entries) == DataFrame(Records(entries))

----------------------------------------------------------------------------
(* Values shared by the specifications *)

NoFrame == [columns |-> {}, rows |-> <<>>]

\* the sequences over S of length at most n
Batches(S, n) == UNION {[1..k -> S] : k \in 0..n}

Oct06 == [year |-> 2024, month |-> 10, day |-> 6]     \* a Sunday

Oct07 == [year |-> 2024, month |-> 10, day |-> 7]     \* a Monday

Noon == [date |-> [year |-> 2025, month |-> 1, day |-> 1], tod |-> 43200]

----------------------------------------------------------------------------
(* SpecNormalize: preprocess_data applied to a batch of raw records *)

MaxBatch == 2

UidA == <<"1", ".", "2">>

UidB == <<"1", ".", "3">>

GoodTime == <<"2", "3", "5", "9", "5", "9", ".", "5", "0", "0">>

NormEntries ==
    { Entry(DA(DateStr(Oct06)), TM(GoodTime), UI(UidA)),                     \* well formed
      Entry(DA(DateStr(Oct07)), TM(HourStr(8)), DA(UidB)),                   \* well formed, quoted uid
      Entry(DA(<<"2", "0", "2", "4", "1", "3", "3", "2">>), TM(GoodTime), UI(UidA)),   \* month 13
      Entry(DA(DateStr(Oct06)), TM(HourStr(24)), UI(UidA)),                  \* hour 24
      Entry(DA(<<"2", "0", "2", "4", "1", "0", "6">>), TM(GoodTime), UI(UidA)),        \* 7-digit date
      Entry(DA(DateStr(Oct06)), TM(<<"2", "3", "5", "9">>), UI(UidA)),       \* 4-digit time
      Entry(DA(<<"2", "0", "2", "4", "1", "0", "0", "x">>), TM(GoodTime), UI(UidA)),   \* non-numeric
      Entry(DA(DateStr(Oct06)), TM(GoodTime), UI(<<>>)),                     \* identity without a value
      (TagDate :> DA(DateStr(Oct07))) @@ (TagTime :> TM(HourStr(9))),        \* identity tag absent
      (TagTime :> TM(GoodTime)) @@ (TagUID :> UI(UidB)) }                    \* date tag absent

InitNormalize ==
    /\ pc = "preprocess"
    /\ data \in Batches(NormEntries, MaxBatch)
    /\ identity_required \in BOOLEAN
    /\ timeframe = "all" /\ country = "DE" /\ top10_output = FALSE /\ now = Noon
    /\ calendar = {} /\ df = NoFrame /\ filtered_df = NoFrame /\ filtered_data = <<>>
    /\ non_holiday_df = NoFrame /\ holiday_df = NoFrame /\ split_again = <<>>
    /\ top_10 = <<>> /\ csv_written = FALSE /\ charts = {} /\ outcome = "running"

ApplyPreprocess(next) ==
    /\ pc = "preprocess"
    /\ df' = preprocess_data(data)
    /\ pc' = next
    /\ UNCHANGED <<data, timeframe, country, top10_output, identity_required, now, calendar,
                   filtered_df, filtered_data, non_holiday_df, holiday_df, split_again,
                   top_10, csv_written, charts, outcome>>

NextNormalize == ApplyPreprocess("done")

SpecNormalize == InitNormalize /\ [][NextNormalize]_vars

AllDigits(s) == \A i \in DOMAIN s : IsDigit(s[i])

\* the date value is exactly 8 digits naming a date of the calendar
WellFormedDate(v) ==
    /\ Len(v) = 8 /\ AllDigits(v)
    /\ ToInt(SubSeq(v, 1, 4)) >= 1
    /\ ToInt(SubSeq(v, 5, 6)) \in 1..12
    /\ ToInt(SubSeq(v, 7, 8)) \in 1..DaysInMonth(ToInt(SubSeq(v, 1, 4)), ToInt(SubSeq(v, 5, 6)))

\* the time value, cut at the decimal point, is exactly HHMMSS in range
WellFormedTime(v) ==
    LET t == SplitDot0(v)
    IN  /\ Len(t) = 6 /\ AllDigits(t)
        /\ ToInt(SubSeq(t, 1, 2)) < 24
        /\ ToInt(SubSeq(t, 3, 4)) < 60
        /\ ToInt(SubSeq(t, 5, 6)) < 60

Malformed(entry) ==
    LET d == clean_value(Get(entry, TagDate))
        t == clean_value(Get(entry, TagTime))
    IN  \/ d = <<>> \/ t = <<>>
        \/ ~WellFormedDate(d[1])
        \/ ~WellFormedTime(t[1])

HasIdentity(entry) == Truthy(clean_value(Get(entry, TagUID)))

WithoutMalformed(entries) == SelectSeq(entries, LAMBDA e : ~Malformed(e))

WithIdentity(entries) == SelectSeq(entries, HasIdentity)

\* the records whose date and time parse, whatever their identity
ParseableCount(entries) ==
    Cardinality({i \in DOMAIN entries : NormalizeIgnoringIdentity(entries[i]) # <<>>})

\* C6: preprocess_data ends without raising with at most one Event per
\* record; a record whose date is not exactly 8 digits, whose date or time
\* is non-numeric or of the wrong length, or out of range, gives no Event
\* and the other records still give theirs: the result is the one the
\* batch without its malformed records gives.
C6_MalformedSkipped ==
    pc = "done" =>
        /\ Len(df.rows) <= Len(data)
        /\ df = preprocess_data(WithoutMalformed(data))

\* C7 as stated: under identity-required a record with a valid date and
\* time and no identity key gives no Event, under identity-optional it
\* gives an Event (with an absent identity key).
C7_BothPolicies ==
    pc = "done" =>
        /\ identity_required => df = preprocess_data(WithIdentity(data))
        /\ ~identity_required => Len(df.rows) = ParseableCount(data)

\* C7 amended: whatever policy the caller asks for, a record with no
\* identity key gives no Event: every Event carries a non-empty identity
\* key, and the result is the one the batch without those records gives.
C7_IdentityAlwaysRequired ==
    pc = "done" =>
        /\ \A i \in DOMAIN df.rows : df.rows[i].study_uid # <<>>
        /\ Len(df.rows) = ParseableCount(WithIdentity(data))
        /\ df = preprocess_data(WithIdentity(data))

\* a batch in which a record with a valid date and time and no identity
\* key comes before a complete one, normalised under the optional policy
C7_Witness ==
    /\ pc = "done"
    /\ ~identity_required
    /\ Len(data) = 2
    /\ ~HasIdentity(data[1]) /\ NormalizeIgnoringIdentity(data[1]) # <<>>
    /\ HasIdentity(data[2])
    /\ Len(df.rows) = 1

----------------------------------------------------------------------------
(* filter_data_by_timeframe, analyze_weekday_study_distribution.py *)

days_mapping == ("6m" :> 180) @@ ("3m" :> 90) @@ ("1m" :> 30)

\* df[df["date"] >= cutoff_date]
RowsSince(frame, cutoff_ordinal) ==
    [columns |-> frame.columns,
     rows    |-> SelectSeq(frame.rows, LAMBDA r : ToOrdinal(r.date) >= cutoff_ordinal)]

filter_data_by_timeframe(frame, tf, clock) ==
    IF tf = "all" THEN [raised |-> "None", value |-> frame]
    ELSE IF tf \in DOMAIN days_mapping
    THEN IF "date" \notin frame.columns
         THEN [raised |-> "KeyError", value |-> NoFrame]
         ELSE LET cutoff_date == ToOrdinal(clock.date) - days_mapping[tf]
              IN  [raised |-> "None", value |-> RowsSince(frame, cutoff_date)]
    ELSE [raised |-> "ValueError", value |-> NoFrame]

----------------------------------------------------------------------------
(* list_institution_names.py: extract_study_date and filter_data_by_timeframe *)

\* re.search(r"DA: '([^']*)'", raw): <<>> for None
extract_study_date(entry) ==
    LET raw == Get(entry, TagDate)
        starts == {k \in 1..(Len(raw) - 5) :
                      /\ SubSeq(raw, k, k + 4) = <<"D", "A", ":", " ", "'">>
                      /\ \E j \in (k + 5)..Len(raw) : raw[j] = "'"}
    IN  IF raw = <<>> \/ starts = {} THEN <<>>
        ELSE LET k == SetMin(starts)
                 j == SetMin({i \in (k + 5)..Len(raw) : raw[i] = "'"})
             IN  <<SubSeq(raw, k + 5, j - 1)>>

\* study_datetime >= cutoff_date, study_datetime the midnight of the study
\* date and cutoff_date = datetime.now() - timedelta(days)
AtOrAfter(study, clock, days) ==
    LET cutoff_day == ToOrdinal(clock.date) - days
    IN  \/ ToOrdinal(study) > cutoff_day
        \/ ToOrdinal(study) = cutoff_day /\ clock.tod = 0

ListKeeps(entry, clock, days) ==
    With(extract_study_date(entry), LAMBDA study_date :
        /\ Truthy(study_date)
        /\ With(strptime(study_date[1], FmtDate), LAMBDA parsed :
               /\ parsed # <<>>
               /\ AtOrAfter(parsed[1], clock, days)))

list_filter_data_by_timeframe(entries, tf, clock) ==
    IF tf = "all" THEN [raised |-> "None", value |-> entries]
    ELSE LET days == IF tf \in DOMAIN days_mapping THEN days_mapping[tf] ELSE 90
         IN  [raised |-> "None",
              value  |-> SelectSeq(entries, LAMBDA e : ListKeeps(e, clock, days))]

----------------------------------------------------------------------------
(* SpecFilter: both filters applied to the same batch, selector and clock *)

MaxFilterBatch == 2

Midnight == [date |-> [year |-> 2025, month |-> 1, day |-> 1], tod |-> 0]

Dated(y, m, d, uid) ==
    Entry(DA(DateStr([year |-> y, month |-> m, day |-> d])), TM(HourStr(10)), UI(uid))

\* 2025-01-01 minus 30, 90 and 180 days is 2024-12-02, 2024-10-03, 2024-07-05
FilterEntries ==
    { Dated(2024, 1, 1, UidA), Dated(2024, 12, 31, UidB),
      Dated(2024, 12, 2, UidA), Dated(2024, 12, 1, UidB),
      Dated(2024, 10, 3, UidA), Dated(2024, 7, 5, UidB) }

Selectors == {"all", "6m", "3m", "1m"}

InitFilter ==
    /\ pc = "preprocess"
    \* the analyze script filters only a frame that has rows (lines 195-197)
    /\ data \in Batches(FilterEntries, MaxFilterBatch) \ {<<>>}
    /\ timeframe \in Selectors \cup {"2m"}
    /\ now \in {Noon, Midnight}
    /\ country = "DE" /\ top10_output = FALSE /\ identity_required = TRUE
    /\ calendar = {} /\ df = NoFrame /\ filtered_df = NoFrame /\ filtered_data = <<>>
    /\ non_holiday_df = NoFrame /\ holiday_df = NoFrame /\ split_again = <<>>
    /\ top_10 = <<>> /\ csv_written = FALSE /\ charts = {} /\ outcome = "running"

ApplyAnalyzeFilter ==
    /\ pc = "filter"
    /\ LET r == filter_data_by_timeframe(df, timeframe, now)
       IN  /\ filtered_df' = r.value
           /\ outcome' = IF r.raised = "None" THEN "returned" ELSE r.raised
    /\ pc' = "list_filter"
    /\ UNCHANGED <<data, timeframe, country, top10_output, identity_required, now, calendar,
                   df, filtered_data, non_holiday_df, holiday_df, split_again,
                   top_10, csv_written, charts>>

\* filtered_data is <<>> until the call has returned, then <<its result>>
ApplyListFilter ==
    /\ pc = "list_filter"
    /\ LET r == list_filter_data_by_timeframe(data, timeframe, now)
       IN  filtered_data' = IF r.raised = "None" THEN <<r.value>> ELSE <<>>
    /\ pc' = "done"
    /\ UNCHANGED <<data, timeframe, country, top10_output, identity_required, now, calendar,
                   df, filtered_df, non_holiday_df, holiday_df, split_again,
                   top_10, csv_written, charts, outcome>>

NextFilter == ApplyPreprocess("filter") \/ ApplyAnalyzeFilter \/ ApplyListFilter

SpecFilter == InitFilter /\ [][NextFilter]_vars

\* the date of a raw record, <<>> when it has none
EntryDate(entry) ==
    LET v == clean_value(Get(entry, TagDate))
    IN  IF v # <<>> /\ WellFormedDate(v[1])
        THEN << [year  |-> ToInt(SubSeq(v[1], 1, 4)),
                 month |-> ToInt(SubSeq(v[1], 5, 6)),
                 day   |-> ToInt(SubSeq(v[1], 7, 8))] >>
        ELSE <<>>

WindowDays(tf) == CASE tf = "6m" -> 180 [] tf = "3m" -> 90 [] tf = "1m" -> 30

OnOrAfterCutoff(d, tf) == ToOrdinal(d) >= ToOrdinal(now.date) - WindowDays(tf)

\* C4: a selector that is none of 'all', '6m', '3m', '1m' makes the filter
\* of either script fail with an error; neither returns a result.
C4_UnknownSelectorFails ==
    (pc = "done" /\ timeframe \notin Selectors) =>
        /\ outcome = "ValueError"
        /\ filtered_data = <<>>

\* C5: for '6m', '3m', '1m' either script's filter returns exactly the
\* items dated on or after today minus 180, 90, 30 days, in input order
\* (an item dated on the cutoff is kept); for 'all' the input unchanged.
C5_WindowInclusive ==
    (pc = "done" /\ timeframe \in Selectors) =>
        /\ outcome = "returned"
        /\ filtered_df.rows =
              IF timeframe = "all" THEN df.rows
              ELSE SelectSeq(df.rows, LAMBDA r : OnOrAfterCutoff(r.date, timeframe))
        /\ filtered_data =
              << IF timeframe = "all" THEN data
                 ELSE SelectSeq(data, LAMBDA e : /\ EntryDate(e) # <<>>
                                                 /\ OnOrAfterCutoff(EntryDate(e)[1], timeframe)) >>

----------------------------------------------------------------------------
(* get_top_10_counts *)

TopN == 10

GroupColumns == {"date", "weekday", "hour"}

KeyOf(r) == [date |-> r.date, weekday |-> r.weekday, hour |-> r.hour]

\* the groups of df.groupby(["date", "weekday", "hour"])
GroupKeys(frame) == {KeyOf(frame.rows[i]) : i \in DOMAIN frame.rows}

\* the number of rows of a group (what .size() would count)
GroupSize(frame, key) ==
    Cardinality({i \in DOMAIN frame.rows : KeyOf(frame.rows[i]) = key})

\* ["study_uid"].nunique() of a group
NUnique(frame, key) ==
    Cardinality({frame.rows[i].study_uid :
                    i \in {j \in DOMAIN frame.rows : KeyOf(frame.rows[j]) = key}})

\* groupby sorts its group keys; the weekday is the date's own, so the
\* order of two keys is decided by date, then hour
KeyBefore(a, b) ==
    \/ ToOrdinal(a.date) < ToOrdinal(b.date)
    \/ a.date = b.date /\ a.hour < b.hour

RECURSIVE SortedKeys(_)
SortedKeys(S) ==
    IF S = {} THEN <<>>
    ELSE With(CHOOSE k \in S : \A o \in S \ {k} : KeyBefore(k, o), LAMBDA first :
             <<first>> \o SortedKeys(S \ {first}))

\* .nunique().reset_index(name="study_count"): one row per group, in key order
GroupCounts(frame) ==
    With(SortedKeys(GroupKeys(frame)), LAMBDA keys :
        [i \in DOMAIN keys |->
            [date |-> keys[i].date, weekday |-> keys[i].weekday, hour |-> keys[i].hour,
             study_count |-> NUnique(frame, keys[i])]])

\* the orders of the rows S that descend by study_count
RECURSIVE DescendingOrders(_)
DescendingOrders(S) ==
    IF S = {} THEN {<<>>}
    ELSE UNION { {<<r>> \o t : t \in DescendingOrders(S \ {r})} :
                 r \in {x \in S : \A y \in S : x.study_count >= y.study_count} }

\* .sort_values(by="study_count", ascending=False): the default kind,
\* quicksort, is not stable, so rows of equal count may come in any order
sort_values(rows) == DescendingOrders({rows[i] : i \in DOMAIN rows})

\* .tail(n)
tail(rows, n) ==
    IF Len(rows) <= n THEN rows ELSE SubSeq(rows, Len(rows) - n + 1, Len(rows))

\* .head(n).reset_index(drop=True)
head(rows, n) == IF Len(rows) <= n THEN rows ELSE SubSeq(rows, 1, n)

\* the results get_top_10_counts can return for a frame
get_top_10_counts(frame) ==
    IF ~((GroupColumns \cup {"study_uid"}) \subseteq frame.columns)
    THEN {[raised |-> "KeyError", value |-> <<>>]}
    ELSE {[raised |-> "None", value |-> head(sorted, TopN)] :
             sorted \in sort_values(GroupCounts(frame))}

\* top_10 is <<>> until the call has returned, then <<its result>>
ApplyTop10(next) ==
    /\ pc = "top10"
    /\ \E r \in get_top_10_counts(filtered_df) :
          /\ top_10' = IF r.raised = "None" THEN <<r.value>> ELSE <<>>
          /\ csv_written' = (top10_output /\ r.raised = "None")
          /\ outcome' = IF r.raised = "None" THEN outcome ELSE r.raised
          /\ pc' = IF r.raised = "None" THEN next ELSE "raised"
    /\ UNCHANGED <<data, timeframe, country, top10_output, identity_required, now, calendar,
                   df, filtered_df, filtered_data, non_holiday_df, holiday_df, split_again,
                   charts>>

----------------------------------------------------------------------------
(* SpecTop: get_top_10_counts applied to a frame of Events *)

MaxTopBatch == 2

MaxGroups == 11

UidC == <<"1", ".", "4">>

Dec30 == [year |-> 2024, month |-> 12, day |-> 30]

Dec31 == [year |-> 2024, month |-> 12, day |-> 31]

\* the record preprocess_data builds for a date, an hour and an identity
Ev(date, hour, uid) ==
    [study_uid |-> uid, weekday |-> DayName(date), hour |-> hour, date |-> date]

\* a frame that has been through preprocess_data and the filter: it keeps
\* its columns when no row is left
FrameOf(rows) == [columns |-> EventColumns, rows |-> rows]

FreeEvents == {Ev(d, h, u) : d \in {Oct06, Oct07}, h \in {8, 9}, u \in {UidA, UidB}}

\* the k-th group of the large batches: 4 hours on each date, and 3, 1, 2,
\* 3, 1, 2, ... distinct identities
GroupDate(k) == <<Oct07, Dec30, Dec31>>[(((k - 1) \div 4) % 3) + 1]

GroupHour(k) == 8 + ((k - 1) % 4) + 4 * ((k - 1) \div 12)

Mult(k) == <<3, 1, 2>>[((k - 1) % 3) + 1]

GroupRows(k, copies) ==
    [i \in 1..(Mult(k) * copies) |->
        Ev(GroupDate(k), GroupHour(k), <<UidA, UidB, UidC>>[((i - 1) % Mult(k)) + 1])]

RECURSIVE RowsOfGroups(_, _)
RowsOfGroups(ks, copies) ==
    IF ks = <<>> THEN <<>>
    ELSE GroupRows(Head(ks), copies) \o RowsOfGroups(Tail(ks), copies)

\* groups 1..n, in key order or against it, each Event once or twice
LargeBatches ==
    { RowsOfGroups([i \in 1..n |-> IF up THEN i ELSE n + 1 - i], copies) :
        n \in 1..MaxGroups, up \in BOOLEAN, copies \in {1, 2} }

InitTop ==
    /\ pc = "top10"
    /\ filtered_df \in {FrameOf(b) : b \in Batches(FreeEvents, MaxTopBatch) \cup LargeBatches}
    /\ data = <<>> /\ timeframe = "all" /\ country = "DE" /\ top10_output = FALSE
    /\ identity_required = TRUE /\ now = Noon /\ calendar = {} /\ df = NoFrame
    /\ filtered_data = <<>> /\ non_holiday_df = NoFrame /\ holiday_df = NoFrame
    /\ split_again = <<>> /\ top_10 = <<>> /\ csv_written = FALSE /\ charts = {}
    /\ outcome = "running"

NextTop == ApplyTop10("done")

SpecTop == InitTop /\ [][NextTop]_vars

\* the first row of the input that belongs to a group
FirstIndex(frame, key) ==
    SetMin({i \in DOMAIN frame.rows : KeyOf(frame.rows[i]) = key})

DistinctIdentities(frame, key) ==
    {frame.rows[i].study_uid : i \in {j \in DOMAIN frame.rows : KeyOf(frame.rows[j]) = key}}

Returned(rows) == {KeyOf(rows[i]) : i \in DOMAIN rows}

\* at most 10 rows, by count descending, and no group left out has a count
\* greater than a returned row's
TopOfCounts(rows) ==
    /\ Len(rows) <= 10
    /\ \A i, j \in DOMAIN rows : i < j => rows[i].study_count >= rows[j].study_count
    /\ \A k \in GroupKeys(filtered_df) \ Returned(rows) : \A i \in DOMAIN rows :
          Cardinality(DistinctIdentities(filtered_df, k)) <= rows[i].study_count

\* C1 as stated: at most 10 rows by count descending, none left out that
\* is greater than a returned row, and rows of equal count in the order
\* in which their groups first appear in the input.
C1_StableOnInputOrder ==
    top_10 # <<>> =>
        /\ TopOfCounts(top_10[1])
        /\ \A i, j \in DOMAIN top_10[1] :
              (i < j /\ top_10[1][i].study_count = top_10[1][j].study_count) =>
                  FirstIndex(filtered_df, KeyOf(top_10[1][i]))
                      < FirstIndex(filtered_df, KeyOf(top_10[1][j]))

\* C1 amended: at most 10 rows by count descending, and no group left out
\* of the result has a count greater than a returned row's (the order of
\* rows of equal count is not the input's).
C1_TopDescending == top_10 # <<>> => TopOfCounts(top_10[1])

\* more than 10 groups, so some are left out, and a tie among the rows
C1_Witness ==
    /\ top_10 # <<>>
    /\ Cardinality(GroupKeys(filtered_df)) > 10
    /\ Len(top_10[1]) = 10
    /\ top_10[1][1].study_count = top_10[1][2].study_count
    /\ top_10[1][1].study_count > top_10[1][10].study_count

----------------------------------------------------------------------------
(* plot_boxplots_per_weekday_hour *)

Hours == 0..23

RowsOfWeekday(frame, weekday) == SelectSeq(frame.rows, LAMBDA r : r.weekday = weekday)

RECURSIVE SortedDates(_)
SortedDates(S) ==
    IF S = {} THEN <<>>
    ELSE With(CHOOSE d \in S : \A o \in S : ToOrdinal(d) <= ToOrdinal(o), LAMBDA first :
             <<first>> \o SortedDates(S \ {first}))

\* hourly_counts[hourly_counts["hour"] == hour]["count"].values: for each
\* date that has rows in this hour, in date order, its distinct identities
Population(weekday_data, hour) ==
    With(SortedDates({weekday_data[i].date :
                         i \in {j \in DOMAIN weekday_data : weekday_data[j].hour = hour}}),
         LAMBDA dates :
            [n \in DOMAIN dates |->
                Cardinality({weekday_data[i].study_uid :
                    i \in {j \in DOMAIN weekday_data :
                              /\ weekday_data[j].hour = hour
                              /\ weekday_data[j].date = dates[n]}})])

\* boxplot_data with an entry only for the hours that have rows
BoxplotDataOfHoursPresent(weekday_data) ==
    [hour \in {weekday_data[i].hour : i \in DOMAIN weekday_data} |->
        Population(weekday_data, hour)]

\* boxplot_data: the list built by the loop over range(24), indexed by hour
BoxplotData(weekday_data) == [hour \in Hours |-> Population(weekday_data, hour)]

\* the charts the function saves: one per weekday that has rows
plot_boxplots_per_weekday_hour(frame, title_suffix) ==
    IF "weekday" \notin frame.columns
    THEN [raised |-> "KeyError", value |-> {}]
    ELSE [raised |-> "None",
          value  |-> {[weekday      |-> WeekdayNames[w],
                       title_suffix |-> title_suffix,
                       boxplot_data |-> BoxplotData(RowsOfWeekday(frame, WeekdayNames[w]))] :
                         w \in {x \in DOMAIN WeekdayNames :
                                   RowsOfWeekday(frame, WeekdayNames[x]) # <<>>}}]

\* lines 216-217: the charts of the non-holiday rows
PlotNonHoliday(next) ==
    /\ pc = "plot_non_holiday"
    /\ LET r == plot_boxplots_per_weekday_hour(non_holiday_df, "(Non-Holidays)")
       IN  /\ charts' = charts \cup r.value
           /\ outcome' = IF r.raised = "None" THEN outcome ELSE r.raised
           /\ pc' = IF r.raised = "None" THEN next ELSE "raised"
    /\ UNCHANGED <<data, timeframe, country, top10_output, identity_required, now, calendar,
                   df, filtered_df, filtered_data, non_holiday_df, holiday_df, split_again,
                   top_10, csv_written>>

\* lines 220-224: the charts of the holiday rows, when there are any
PlotHoliday ==
    /\ pc = "plot_holiday"
    /\ IF holiday_df.rows # <<>>
       THEN charts' = charts \cup plot_boxplots_per_weekday_hour(holiday_df, "(Holidays)").value
       ELSE charts' = charts
    /\ outcome' = "completed"
    /\ pc' = "finished"
    /\ UNCHANGED <<data, timeframe, country, top10_output, identity_required, now, calendar,
                   df, filtered_df, filtered_data, non_holiday_df, holiday_df, split_again,
                   top_10, csv_written>>

----------------------------------------------------------------------------
(* SpecBucket: plot_boxplots_per_weekday_hour applied to a frame of Events *)

MaxBucketBatch == 2

Oct14 == [year |-> 2024, month |-> 10, day |-> 14]    \* a Monday

BucketEvents == {Ev(d, h, u) : d \in {Oct06, Oct07, Oct14}, h \in {0, 23}, u \in {UidA, UidB}}

InitBucket ==
    /\ pc = "plot_non_holiday"
    /\ non_holiday_df \in {FrameOf(b) : b \in Batches(BucketEvents, MaxBucketBatch)}
    /\ data = <<>> /\ timeframe = "all" /\ country = "DE" /\ top10_output = FALSE
    /\ identity_required = TRUE /\ now = Noon /\ calendar = {} /\ df = NoFrame
    /\ filtered_df = NoFrame /\ filtered_data = <<>> /\ holiday_df = NoFrame
    /\ split_again = <<>> /\ top_10 = <<>> /\ csv_written = FALSE /\ charts = {}
    /\ outcome = "running"

NextBucket == PlotNonHoliday("done")

SpecBucket == InitBucket /\ [][NextBucket]_vars

\* the (weekday, hour) buckets of the charts
Buckets == UNION {{<<c.weekday, h>> : h \in DOMAIN c.boxplot_data} : c \in charts}

WeekdaysWithEvents(frame) == {frame.rows[i].weekday : i \in DOMAIN frame.rows}

BucketHasEvent(frame, weekday, hour) ==
    \E i \in DOMAIN frame.rows : frame.rows[i].weekday = weekday /\ frame.rows[i].hour = hour

\* C3 as stated: for every input, the empty one included, the output
\* holds exactly 7 x 24 = 168 (weekday, hour) buckets.
C3_AlwaysAllBuckets == pc = "done" => Cardinality(Buckets) = 168

\* C3 amended: a weekday with no Event gets no chart and no bucket; each
\* weekday that has an Event gets one chart with exactly the 24 hours 0..23,
\* an hour with no Event being there with an empty population: 24 buckets
\* per weekday that has Events.
C3_AllHoursOfWeekdaysPresent ==
    pc = "done" =>
        /\ {c.weekday : c \in charts} = WeekdaysWithEvents(non_holiday_df)
        /\ Cardinality(charts) = Cardinality(WeekdaysWithEvents(non_holiday_df))
        /\ Cardinality(Buckets) = 24 * Cardinality(WeekdaysWithEvents(non_holiday_df))
        /\ \A c \in charts :
              /\ DOMAIN c.boxplot_data = 0..23
              /\ \A h \in 0..23 :
                    (c.boxplot_data[h] = <<>>) <=> ~BucketHasEvent(non_holiday_df, c.weekday, h)

\* Events on a Sunday and a Monday only: two charts, 48 buckets, and the
\* Monday chart has an empty hour
C3_Witness ==
    /\ pc = "done"
    /\ WeekdaysWithEvents(non_holiday_df) = {"Sunday", "Monday"}
    /\ Cardinality(Buckets) = 48
    /\ \E c \in charts : c.weekday = "Monday" /\ c.boxplot_data[0] = <<>>
                         /\ c.boxplot_data[23] # <<>>

----------------------------------------------------------------------------
(* separate_holidays *)

\* the countries the holidays package has a calendar for, as far as the
\* model's inputs go; CountryHoliday raises for any other code
KnownCountries == {"DE", "US"}

\* df[mask] for mask = df["date"].isin(public_holidays), negated or not
RowsWhere(frame, public_holidays, wanted) ==
    [columns |-> frame.columns,
     rows    |-> SelectSeq(frame.rows, LAMBDA r : (r.date \in public_holidays) = wanted)]

\* the split with the non-holiday mask not negated away from the frame
separate_holidays_keeping_all(frame, ctry, public_holidays) ==
    IF ctry \notin KnownCountries
    THEN [raised |-> "NotImplementedError", value |-> <<NoFrame, NoFrame>>]
    ELSE [raised |-> "None",
          value  |-> <<frame, RowsWhere(frame, public_holidays, TRUE)>>]

\* the split with a calendar that knows no holiday for an unknown country
separate_holidays_lenient(frame, ctry, public_holidays) ==
    IF ctry \notin KnownCountries
    THEN [raised |-> "None", value |-> <<frame, RowsWhere(frame, {}, TRUE)>>]
    ELSE [raised |-> "None",
          value  |-> <<RowsWhere(frame, public_holidays, FALSE),
                       RowsWhere(frame, public_holidays, TRUE)>>]

\* <<non_holiday_df, holiday_df>>
separate_holidays(frame, ctry, public_holidays) ==
    IF ctry \notin KnownCountries
    THEN [raised |-> "NotImplementedError", value |-> <<NoFrame, NoFrame>>]
    ELSE IF "date" \notin frame.columns
    THEN [raised |-> "KeyError", value |-> <<NoFrame, NoFrame>>]
    ELSE [raised |-> "None",
          value  |-> <<RowsWhere(frame, public_holidays, FALSE),
                       RowsWhere(frame, public_holidays, TRUE)>>]

\* line 207; the exception of an unknown country is not caught
Separate(next) ==
    /\ pc = "separate"
    /\ LET r == separate_holidays(filtered_df, country, calendar)
       IN  /\ non_holiday_df' = r.value[1]
           /\ holiday_df' = r.value[2]
           /\ outcome' = IF r.raised = "None" THEN outcome ELSE r.raised
           /\ pc' = IF r.raised = "None" THEN next ELSE "raised"
    /\ UNCHANGED <<data, timeframe, country, top10_output, identity_required, now, calendar,
                   df, filtered_df, filtered_data, split_again, top_10, csv_written, charts>>

\* separate_holidays applied to the same frame a second time
SeparateAgain ==
    /\ pc = "separate_again"
    /\ split_again' = <<separate_holidays(filtered_df, country, calendar).value>>
    /\ pc' = "done"
    /\ UNCHANGED <<data, timeframe, country, top10_output, identity_required, now, calendar,
                   df, filtered_df, filtered_data, non_holiday_df, holiday_df,
                   top_10, csv_written, charts, outcome>>

----------------------------------------------------------------------------
(* SpecPartition: separate_holidays applied twice to a frame of Events *)

MaxPartBatch == 2

Oct03 == [year |-> 2024, month |-> 10, day |-> 3]

PartDates == {Oct03, Oct06, Oct07}

PartEvents == {Ev(d, 8, u) : d \in PartDates, u \in {UidA, UidB}}

InitPartition ==
    /\ pc = "separate"
    /\ filtered_df \in {FrameOf(b) : b \in Batches(PartEvents, MaxPartBatch)}
    /\ country \in KnownCountries
    /\ calendar \in SUBSET PartDates
    /\ data = <<>> /\ timeframe = "all" /\ top10_output = FALSE
    /\ identity_required = TRUE /\ now = Noon /\ df = NoFrame
    /\ filtered_data = <<>> /\ non_holiday_df = NoFrame /\ holiday_df = NoFrame
    /\ split_again = <<>> /\ top_10 = <<>> /\ csv_written = FALSE /\ charts = {}
    /\ outcome = "running"

NextPartition == Separate("separate_again") \/ SeparateAgain

SpecPartition == InitPartition /\ [][NextPartition]_vars

Occurrences(rows, e) == Cardinality({i \in DOMAIN rows : rows[i] = e})

RowSet(frame) == {frame.rows[i] : i \in DOMAIN frame.rows}

\* C10: separate_holidays puts every input Event in exactly one of
\* (non-holiday, holiday): none lost, none in both, none added; and a
\* second application to the same input gives the same split.
C10_Partition ==
    pc \in {"separate_again", "done"} =>
        /\ RowSet(non_holiday_df) \cap RowSet(holiday_df) = {}
        /\ RowSet(non_holiday_df) \cup RowSet(holiday_df) = RowSet(filtered_df)
        /\ \A e \in RowSet(filtered_df) :
              Occurrences(non_holiday_df.rows, e) + Occurrences(holiday_df.rows, e)
                  = Occurrences(filtered_df.rows, e)
        /\ Len(non_holiday_df.rows) + Len(holiday_df.rows) = Len(filtered_df.rows)
        /\ pc = "done" => split_again = << <<non_holiday_df, holiday_df>> >>

\* a frame with a holiday row and a working-day row, split twice
C10_Witness ==
    /\ pc = "done"
    /\ non_holiday_df.rows # <<>>
    /\ holiday_df.rows # <<>>
    /\ split_again # <<>>

----------------------------------------------------------------------------
(* SpecMain: the analyze script from its command line to its last chart *)

MaxMainBatch == 2

Dec25 == [year |-> 2024, month |-> 12, day |-> 25]

Jan01 == [year |-> 2024, month |-> 1, day |-> 1]

\* two records of the last month (one on a holiday), one of a year ago and
\* one that preprocess_data skips
MainEntries ==
    { Dated(2024, 12, 31, UidA), Dated(2024, 12, 25, UidB), Dated(2024, 1, 1, UidA),
      Entry(DA(<<"2", "0", "2", "4", "1", "3", "3", "2">>), TM(GoodTime), UI(UidA)) }

InitMain ==
    /\ pc = "parse_args"
    /\ data \in Batches(MainEntries, MaxMainBatch)
    /\ timeframe \in {"all", "1m", "2m"}
    /\ country \in {"DE", "XX"}
    /\ top10_output \in BOOLEAN
    /\ calendar \in {{}, {Dec25, Jan01}}
    /\ now = Noon /\ identity_required = TRUE
    /\ df = NoFrame /\ filtered_df = NoFrame /\ filtered_data = <<>>
    /\ non_holiday_df = NoFrame /\ holiday_df = NoFrame /\ split_again = <<>>
    /\ top_10 = <<>> /\ csv_written = FALSE /\ charts = {}
    /\ outcome = "running"

\* lines 168-185: --timeframe has choices, --holiday-country has none
ParseArgs ==
    /\ pc = "parse_args"
    /\ pc' = IF timeframe \in Selectors THEN "load" ELSE "exited"
    /\ outcome' = IF timeframe \in Selectors THEN outcome ELSE "usage_error"
    /\ UNCHANGED <<data, timeframe, country, top10_output, identity_required, now, calendar,
                   df, filtered_df, filtered_data, non_holiday_df, holiday_df, split_again,
                   top_10, csv_written, charts>>

\* lines 188-191
Load ==
    /\ pc = "load"
    /\ pc' = IF Truthy(data) THEN "preprocess_main" ELSE "exited"
    /\ outcome' = IF Truthy(data) THEN outcome ELSE "no_data"
    /\ UNCHANGED <<data, timeframe, country, top10_output, identity_required, now, calendar,
                   df, filtered_df, filtered_data, non_holiday_df, holiday_df, split_again,
                   top_10, csv_written, charts>>

\* lines 194-197
Preprocess ==
    /\ pc = "preprocess_main"
    /\ df' = preprocess_data(data)
    /\ pc' = IF df'.rows = <<>> THEN "exited" ELSE "filter_main"
    /\ outcome' = IF df'.rows = <<>> THEN "no_valid_records" ELSE outcome
    /\ UNCHANGED <<data, timeframe, country, top10_output, identity_required, now, calendar,
                   filtered_df, filtered_data, non_holiday_df, holiday_df, split_again,
                   top_10, csv_written, charts>>

\* lines 200-204: a ValueError ends the run, anything else goes on
Filter ==
    /\ pc = "filter_main"
    /\ LET r == filter_data_by_timeframe(df, timeframe, now)
       IN  /\ filtered_df' = r.value
           /\ outcome' = IF r.raised = "None" THEN outcome ELSE r.raised
           /\ pc' = CASE r.raised = "None"       -> "separate"
                      [] r.raised = "ValueError" -> "exited"
                      [] OTHER                   -> "raised"
    /\ UNCHANGED <<data, timeframe, country, top10_output, identity_required, now, calendar,
                   df, filtered_data, non_holiday_df, holiday_df, split_again,
                   top_10, csv_written, charts>>

NextMain ==
    \/ ParseArgs
    \/ Load
    \/ Preprocess
    \/ Filter
    \/ Separate("top10")
    \/ ApplyTop10("plot_non_holiday")
    \/ PlotNonHoliday("plot_holiday")
    \/ PlotHoliday

SpecMain == InitMain /\ [][NextMain]_vars

\* normalization gave at least one Event and the filter left none
NothingSurvivedFilter ==
    /\ df.rows # <<>>
    /\ filtered_df.columns # {}
    /\ filtered_df.rows = <<>>

\* C8: a run whose filter leaves no Event of a non-empty normalized batch
\* stops with a "no data" outcome: it never computes the top-10 table,
\* never writes the top-10 file and never completes as a normal run.
C8_EmptyAfterFilterStops ==
    NothingSurvivedFilter =>
        /\ top_10 = <<>>
        /\ ~csv_written
        /\ pc \notin {"plot_non_holiday", "plot_holiday", "finished"}
        /\ outcome # "completed"

ConfigurationError == timeframe \notin Selectors \/ country \notin KnownCountries

\* C9: in a run with an unknown window selector or an unknown holiday
\* country, get_top_10_counts and plot_boxplots_per_weekday_hour never
\* start: no top-10 table, no top-10 file and no chart exists in any state.
C9_ConfigErrorBeforeOutput ==
    ConfigurationError =>
        /\ pc \notin {"top10", "plot_non_holiday", "plot_holiday", "finished"}
        /\ top_10 = <<>>
        /\ ~csv_written
        /\ charts = {}
        /\ outcome # "completed"

\* the run of an unknown country ended by separate_holidays with Events at hand
C9_Witness ==
    /\ country \notin KnownCountries
    /\ pc = "raised"
    /\ outcome = "NotImplementedError"
    /\ filtered_df.rows # <<>>
    /\ top10_output

====
